---- MODULE Spec2Model ----
(***************************************************************************)
(* A model of outlook-mcp's authenticated request layer:                   *)
(*   - auth/token-manager.js: the cached credential record, the token      *)
(*     file, needsRefresh(), the single-flight refreshAccessToken() and    *)
(*     getAccessToken();                                                   *)
(*   - email/search.js: progressiveSearch(), the cascade of query          *)
(*     strategies, and the list-emails handler, both on top of the         *)
(*     paginated fetch of utils/graph-api.                                 *)
(* Node runs one callback at a time and drains the microtask queue after   *)
(* each callback: an action is one callback (a tool invocation up to its   *)
(* first await, a network event handler) or one continuation.              *)
(***************************************************************************)
EXTENDS Integers, Sequences, FiniteSets, TLC

\* ------------------------------------------------------------------ bounds
NumCallers == 2
MaxRequests == 2
MaxTicks == 1
MaxExpiryMin == 15
MaxOver == 1

\* The page size the handlers never exceed (search.js:90, list handler line 28).
PageCap == 50

\* ---------------------------------------------------------------- optionals
\* A JavaScript value that may be undefined/null: <<>> or <<v>>.
None == <<>>
Some(v) == <<v>>
Val(o) == o[1]

Callers == 1..NumCallers

\* One clock step of the model: five minutes, in milliseconds.
TickMs == 5 * 60 * 1000

REFRESH_BUFFER_MS == 5 * 60 * 1000

\* Lifetimes (expires_in, seconds) the token endpoint reports.
Lifetimes == {300, 3600}

\* Scope strings: the one in the stored record, the one a renewal may grant.
StoredScope == "Mail.Read"
GrantedScope == "Mail.ReadWrite"

AccessTok(n) == <<"access_token", n>>
RefreshTok(n) == <<"refresh_token", n>>

Record(at, rt, ein, eat, sc) ==
    [access_token |-> at, refresh_token |-> rt, expires_in |-> ein,
     expires_at |-> eat, scope |-> sc]

\* Records the authorization exchange may have stored before the process
\* starts; one of them lacks the access token.
InitialRecords ==
    {Record(None, Some(RefreshTok(0)), None, Some(2 * TickMs), Some(StoredScope))}
    \cup { Record(Some(AccessTok(0)), rt, None, eat, Some(StoredScope)) :
             rt \in {None, Some(RefreshTok(0))},
             eat \in {None, Some(TickMs), Some(2 * TickMs)} }

VARIABLES
    cachedTokens,    \* token-manager.js:11  None or Some(record)
    refreshPromise,  \* token-manager.js:12  None or Some(id of the attempt)
    tokenFile,       \* the file at AUTH_CONFIG.tokenStorePath: None or Some(JSON text)
    netRequests,     \* renewal requests on the wire: a set of [id, refresh_token]
    now,             \* Date.now(), milliseconds
    requests,        \* number of renewal requests sent so far
    pc,              \* per caller: "idle", "awaiting", "resumeOk", "resumeErr", "done"
    att,             \* per caller: id of the attempt its call awaits or awaited, 0 if none
    result,          \* per caller: what its getAccessToken() call returned
    lastResponse,    \* how the last renewal request ended: None or
                     \* Some([id, kind, body, saved]); saved: saveTokenCache() returned true
    needsOut         \* the last needsRefresh() result handed to an outside caller

tokenVars == <<cachedTokens, refreshPromise, tokenFile, netRequests, now, requests,
               pc, att, result, lastResponse, needsOut>>

VARIABLES
    tool,            \* the tool invoked: "search-emails" or "list-emails"
    args,            \* its arguments, after the handler's defaults
    sPc,             \* the handler: "idle", "calling", "done", "threw"
    searchAttempts,  \* search.js:85  the strategies tried so far, in order
    lastOutcome,     \* how the last finished fetch ended: [strategy, kind]
    firstHit,        \* the first fetch of this search that returned an item
    inflight,        \* page requests on the wire: a set of [strategy, top, offset]
    acc,             \* items the running fetch has accumulated
    baseParams,      \* the query parameters the handler gave the running fetch
    response         \* what the handler got back: None or Some([value, src, _searchInfo])

searchVars == <<tool, args, sPc, searchAttempts, lastOutcome, firstHit, inflight, acc,
                baseParams, response>>

VARIABLES
    mailCategories,  \* the remote: the categories on the one email, in order
    eTool,           \* per invocation: "none", "delete-email", "add-category", "remove-category"
    eArgs,           \* per invocation: [id, category] after the handler's defaults
    ePc,             \* per invocation: "idle", "auth", "reading", "writing", "done"
    authCalls,       \* per invocation: calls of ensureAuthenticated()
    eCalls,          \* per invocation: the callGraphAPI calls issued, in order
    currentCategories, \* per invocation: remove.js:51 / :157, None before the read
    eReply           \* per invocation: the text returned, None before the return

editVars == <<mailCategories, eTool, eArgs, ePc, authCalls, eCalls, currentCategories,
              eReply>>

VARIABLES
    lastSaved,       \* the last saveTokenCache(tokens) call: None or Some([tokens, ok])
    lastLoaded       \* what loadTokenCache() returned since then: None or Some([value])

storeVars == <<lastSaved, lastLoaded>>

vars == <<tokenVars, searchVars, editVars, storeVars>>

\* What an action of one part leaves alone.
notToken == <<searchVars, editVars, storeVars>>
notSearch == <<tokenVars, editVars, storeVars>>
notEdit == <<tokenVars, searchVars, storeVars>>
notStore == <<searchVars, editVars>>

\* ------------------------------------------------------------ return values
NoResult == [kind |-> "none", token |-> None]
RetNull == [kind |-> "null", token |-> None]
RetThrow == [kind |-> "throw", token |-> None]
RetToken(t) == [kind |-> "value", token |-> t]

\* ------------------------------------------------------------ token-manager
\* JSON.stringify / JSON.parse of a record of strings and finite numbers:
\* a field that is undefined is left out and is undefined again after parsing.
withoutScope(rec) ==
    { <<k, Val(rec[k])>> : k \in {f \in DOMAIN rec : rec[f] # None /\ f # "scope"} }

toJson(rec) == { <<k, Val(rec[k])>> : k \in {f \in DOMAIN rec : rec[f] # None} }

fromJson(text) ==
    [k \in {"access_token", "refresh_token", "expires_in", "expires_at", "scope"} |->
        IF \E p \in text : p[1] = k
        THEN Some((CHOOSE p \in text : p[1] = k)[2]) ELSE None]

\* What the token file may hold when the process starts: nothing (or nothing
\* that parses), or a record written by the authorization exchange.
InitialFiles == {None} \cup { Some(toJson(r)) : r \in InitialRecords }

\* loadTokenCache(): the tokens it returns (None for a missing, unreadable or
\* malformed file, and for a record without access_token).
loadTokenCache(file) ==
    IF file = None THEN None
    ELSE IF fromJson(Val(file)).access_token = None THEN None
    ELSE Some(fromJson(Val(file)))

\* cachedTokens after loadTokenCache(): replaced only when tokens are returned.
cacheAfterLoad(cache, file) ==
    IF loadTokenCache(file) = None THEN cache ELSE loadTokenCache(file)

\* !x for a number that may be undefined.
Falsy(o) == o = None \/ Val(o) = 0

alwaysStale(cache, t) == TRUE

needsRefreshStrict(cache, t) ==
    IF cache = None THEN TRUE
    ELSE IF Falsy(Val(cache).expires_at) THEN TRUE
    ELSE t > Val(Val(cache).expires_at) - REFRESH_BUFFER_MS

needsRefresh(cache, t) ==
    IF cache = None THEN TRUE
    ELSE IF Falsy(Val(cache).expires_at) THEN TRUE
    ELSE t >= Val(Val(cache).expires_at) - REFRESH_BUFFER_MS

\* refreshAccessToken() lines 114-118: an attempt in the slot is joined.
neverJoins(promise) == FALSE

joinsAttempt(promise) == promise # None

\* getAccessToken() lines 209-212: expired, and nothing to renew it with.
staleToken(rec) == RetToken(rec.access_token)

withoutRefreshToken(rec) == RetNull

\* The 2xx branch of the response handler, lines 150-156.
mergeDropsRefresh(rec, body, t) ==
    [rec EXCEPT !.access_token = body.access_token,
                !.refresh_token = body.refresh_token,
                !.expires_in = body.expires_in,
                !.expires_at = Some(t + Val(body.expires_in) * 1000),
                !.scope = IF body.scope # None THEN body.scope ELSE rec.scope]

mergeResponse(rec, body, t) ==
    [rec EXCEPT !.access_token = body.access_token,
                !.refresh_token = IF body.refresh_token # None
                                  THEN body.refresh_token ELSE rec.refresh_token,
                !.expires_in = body.expires_in,
                !.expires_at = Some(t + Val(body.expires_in) * 1000),
                !.scope = IF body.scope # None THEN body.scope ELSE rec.scope]

\* getAccessToken() after `await refreshAccessToken()`: lines 203-215.
rethrows(settled, cache) ==
    IF settled = "resumeErr" THEN RetThrow ELSE RetToken(Val(cache).access_token)

afterAwait(settled, cache) ==
    IF settled = "resumeErr" THEN RetNull ELSE RetToken(Val(cache).access_token)

\* Responses of the token endpoint to the request with the given id.
Bodies(id) ==
    { [access_token |-> Some(AccessTok(id)), refresh_token |-> rt,
       expires_in |-> Some(l), scope |-> sc] :
        rt \in {None, Some(RefreshTok(id))}, l \in Lifetimes,
        sc \in {None, Some(GrantedScope)} }

\* The ways a renewal request ends without a usable 2xx body.
FailureKinds == {"transport-error", "non-2xx", "unparseable"}

\* No continuation is queued: the event loop may take the next event.
NoMicrotasks == \A c \in Callers : pc[c] \notin {"resumeOk", "resumeErr"}

Waiters == {c \in Callers : pc[c] = "awaiting"}

\* No search-emails or list-emails invocation.
NoSearch ==
    /\ tool = "none"
    /\ args = None
    /\ sPc = "idle"
    /\ searchAttempts = <<>>
    /\ lastOutcome = None
    /\ firstHit = None
    /\ inflight = {}
    /\ acc = 0
    /\ baseParams = None
    /\ response = None

\* The tool invocations that may edit the email at the same time.
Editors == {"e1", "e2"}

\* No delete-email, add-category or remove-category invocation.
NoEdit ==
    /\ mailCategories = <<>>
    /\ eTool = [e \in Editors |-> "none"]
    /\ eArgs = [e \in Editors |-> None]
    /\ ePc = [e \in Editors |-> "idle"]
    /\ authCalls = [e \in Editors |-> 0]
    /\ eCalls = [e \in Editors |-> <<>>]
    /\ currentCategories = [e \in Editors |-> None]
    /\ eReply = [e \in Editors |-> None]

\* No direct call of the store's functions.
NoStore ==
    /\ lastSaved = None
    /\ lastLoaded = None

\* The module as loaded (lines 10-12), nobody calling yet.
Loaded ==
    /\ refreshPromise = None
    /\ netRequests = {}
    /\ now = 0
    /\ requests = 0
    /\ pc = [c \in Callers |-> "idle"]
    /\ att = [c \in Callers |-> 0]
    /\ result = [c \in Callers |-> NoResult]
    /\ lastResponse = None
    /\ needsOut = None

InitToken ==
    /\ cachedTokens = None
    /\ tokenFile \in InitialFiles
    /\ Loaded
    /\ NoSearch
    /\ NoEdit
    /\ NoStore

Return(c, r) ==
    /\ pc' = [pc EXCEPT ![c] = "done"]
    /\ result' = [result EXCEPT ![c] = r]
    /\ att' = [att EXCEPT ![c] = 0]
    /\ UNCHANGED <<refreshPromise, netRequests, requests>>

\* getAccessToken(), up to its first await or its return (lines 190-216, with
\* refreshAccessToken() lines 109-183 inlined where it is called).
getAccessToken(c) ==
    LET ct == IF cachedTokens = None THEN cacheAfterLoad(cachedTokens, tokenFile)
              ELSE cachedTokens
    IN
    /\ pc[c] = "idle"
    /\ NoMicrotasks
    /\ cachedTokens' = ct
    /\ UNCHANGED <<tokenFile, now, lastResponse, needsOut>>
    /\ IF ct = None \/ (ct # None /\ Val(ct).access_token = None)
       THEN Return(c, RetNull)
       ELSE IF ~needsRefresh(ct, now)
       THEN Return(c, RetToken(Val(ct).access_token))
       ELSE IF Val(ct).refresh_token = None
       THEN Return(c, withoutRefreshToken(Val(ct)))
       ELSE IF joinsAttempt(refreshPromise)
       THEN /\ refreshPromise # None
            /\ pc' = [pc EXCEPT ![c] = "awaiting"]
            /\ att' = [att EXCEPT ![c] = Val(refreshPromise)]
            /\ UNCHANGED <<result, refreshPromise, netRequests, requests>>
       ELSE /\ requests < MaxRequests
            /\ requests' = requests + 1
            /\ refreshPromise' = Some(requests + 1)
            /\ netRequests' = netRequests \cup
                    {[id |-> requests + 1, refresh_token |-> Val(ct).refresh_token]}
            /\ pc' = [pc EXCEPT ![c] = "awaiting"]
            /\ att' = [att EXCEPT ![c] = requests + 1]
            /\ UNCHANGED result
    /\ UNCHANGED notToken

settlesNobody(id, to) == pc

\* The settled promise of attempt id reaches everyone awaiting it.
Settle(id, to) ==
    [c \in Callers |-> IF pc[c] = "awaiting" /\ att[c] = id THEN to ELSE pc[c]]

\* The attempt slot after the request ended: line 145 and line 174 clear it
\* before anything else happens.
slotKeptOnFailure(slot, kind) == IF kind = "2xx" THEN None ELSE slot

slotAfterSettle(slot, kind) == None

\* cachedTokens after a request that ended without a usable 2xx body
\* (lines 162-169, 173-177): nothing is assigned.
halfMerged(cache, kind) ==
    IF kind = "non-2xx" /\ cache # None
    THEN Some([Val(cache) EXCEPT !.access_token = None]) ELSE cache

cacheAfterFailure(cache, kind) == cache

\* cachedTokens after the 2xx branch: lines 150-156 assign to the fields of
\* the cached object itself, before saveTokenCache() is called.
cacheNeedsWrite(merged, old, writeOk) == IF writeOk THEN Some(merged) ELSE old

cacheAfterMerge(merged, old, writeOk) == Some(merged)

\* res.on('end') with a 2xx status and a body that parses (lines 144-161);
\* saveTokenCache() lines 77-92 writes the file, or fails to.
responseOk ==
    /\ NoMicrotasks
    /\ \E req \in netRequests, writeOk \in BOOLEAN :
       \E body \in Bodies(req.id) :
         LET merged == mergeResponse(Val(cachedTokens), body, now) IN
         /\ cachedTokens' = cacheAfterMerge(merged, cachedTokens, writeOk)
         /\ tokenFile' = IF writeOk THEN Some(toJson(merged)) ELSE tokenFile
         /\ lastResponse' = Some([id |-> req.id, kind |-> "2xx", body |-> Some(body),
                                 saved |-> writeOk])
         /\ netRequests' = netRequests \ {req}
         /\ pc' = Settle(req.id, "resumeOk")
    /\ refreshPromise' = slotAfterSettle(refreshPromise, "2xx")
    /\ UNCHANGED <<now, requests, att, result, needsOut>>
    /\ UNCHANGED notToken

\* res.on('end') with a non-2xx status or a body JSON.parse rejects
\* (lines 144-147, 162-169), and req.on('error') (lines 173-177).
responseFailed ==
    /\ NoMicrotasks
    /\ \E req \in netRequests, kind \in FailureKinds :
         /\ lastResponse' = Some([id |-> req.id, kind |-> kind, body |-> None,
                                 saved |-> FALSE])
         /\ netRequests' = netRequests \ {req}
         /\ pc' = Settle(req.id, "resumeErr")
         /\ refreshPromise' = slotAfterSettle(refreshPromise, kind)
         /\ cachedTokens' = cacheAfterFailure(cachedTokens, kind)
    /\ UNCHANGED <<tokenFile, now, requests, att, result, needsOut>>
    /\ UNCHANGED notToken

\* The continuation of getAccessToken() after the await (lines 204-215).
resume(c) ==
    /\ pc[c] \in {"resumeOk", "resumeErr"}
    /\ result' = [result EXCEPT ![c] = afterAwait(pc[c], cachedTokens)]
    /\ pc' = [pc EXCEPT ![c] = "done"]
    /\ UNCHANGED <<cachedTokens, refreshPromise, tokenFile, netRequests, now, requests,
                   att, lastResponse, needsOut>>
    /\ UNCHANGED notToken

\* The handler that called getAccessToken() takes the result; the caller is
\* free for its next tool invocation.
collect(c) ==
    /\ pc[c] = "done"
    /\ NoMicrotasks
    /\ pc' = [pc EXCEPT ![c] = "idle"]
    /\ result' = [result EXCEPT ![c] = NoResult]
    /\ att' = [att EXCEPT ![c] = 0]
    /\ UNCHANGED <<cachedTokens, refreshPromise, tokenFile, netRequests, now, requests,
                   lastResponse, needsOut>>
    /\ UNCHANGED notToken

\* handleCheckAuthStatus() (auth tools lines 71-117).
statusMessage(tokens, t) ==
    IF tokens = None \/ (tokens # None /\ Val(tokens).access_token = None)
    THEN "Not authenticated"
    ELSE IF ~Falsy(Val(tokens).expires_at) /\ t > Val(Val(tokens).expires_at)
    THEN "Token expired"
    ELSE "Authenticated and ready"

handleCheckAuthStatus ==
    /\ NoMicrotasks
    /\ cachedTokens' = cacheAfterLoad(cachedTokens, tokenFile)
    /\ UNCHANGED <<refreshPromise, tokenFile, netRequests, now, requests, pc, att,
                   result, lastResponse, needsOut>>
    /\ UNCHANGED notToken

\* createTestTokens(), lines 222-231, as called by handleAuthenticate() in
\* test mode (auth tools lines 40-54): a one-hour record, saved.
createTestTokens(t) ==
    Record(Some(<<"test_access_token_", t>>), Some(<<"test_refresh_token_", t>>),
           None, Some(t + 3600 * 1000), None)

handleAuthenticate ==
    /\ NoMicrotasks
    /\ \E writeOk \in BOOLEAN :
         /\ tokenFile' = IF writeOk THEN Some(toJson(createTestTokens(now))) ELSE tokenFile
         /\ cachedTokens' = IF writeOk THEN Some(createTestTokens(now)) ELSE cachedTokens
    /\ UNCHANGED <<refreshPromise, netRequests, now, requests, pc, att, result,
                   lastResponse, needsOut>>
    /\ UNCHANGED notToken

\* Time passes between events.
Tick ==
    /\ NoMicrotasks
    /\ now < MaxTicks * TickMs
    /\ now' = now + TickMs
    /\ UNCHANGED <<cachedTokens, refreshPromise, tokenFile, netRequests, requests,
                   pc, att, result, lastResponse, needsOut>>
    /\ UNCHANGED notToken

NextToken ==
    \/ \E c \in Callers : getAccessToken(c)
    \/ responseOk
    \/ responseFailed
    \/ \E c \in Callers : resume(c)
    \/ \E c \in Callers : collect(c)
    \/ handleCheckAuthStatus
    \/ Tick

\* The server in test mode, where `authenticate` stores test tokens; every
\* caller makes one getAccessToken() call.
NextAuth ==
    \/ \E c \in Callers : getAccessToken(c)
    \/ responseOk
    \/ responseFailed
    \/ \E c \in Callers : resume(c)
    \/ handleCheckAuthStatus
    \/ handleAuthenticate
    \/ Tick

\* needsRefresh() called on its own (the module exports it), lines 98-103.
needsRefreshCall ==
    /\ needsOut' = Some([value |-> needsRefresh(cachedTokens, now), at |-> now])
    /\ UNCHANGED <<cachedTokens, refreshPromise, tokenFile, netRequests, now, requests,
                   pc, att, result, lastResponse>>
    /\ UNCHANGED notToken

\* Cached records to classify: none, and records expiring 0..MaxExpiryMin minutes
\* after the process started, or with no expiry at all.
ClassifyInputs ==
    {None} \cup
    { Some(Record(Some(AccessTok(0)), rt, None, eat, Some(StoredScope))) :
        rt \in {None, Some(RefreshTok(0))},
        eat \in {None} \cup { Some(m * 60 * 1000) : m \in 0..MaxExpiryMin } }

InitClassify ==
    /\ cachedTokens \in ClassifyInputs
    /\ tokenFile = None
    /\ Loaded
    /\ NoSearch
    /\ NoEdit
    /\ NoStore

NextClassify ==
    \/ needsRefreshCall
    \/ Tick

\* ------------------------------------------------------------ email/search.js
Min(a, b) == IF a < b THEN a ELSE b

Last(q) == q[Len(q)]

\* Requested counts: small ones, the page cap, and above it.
Counts == {1, 2, PageCap, PageCap + MaxOver}

\* The arguments of search-emails after lines 15-29 (a term not supplied is '',
\* a date bound not supplied is null).
SearchArgs ==
    [ subject : {"", "invoice"}, from : {"", "alice"}, to : {"", "bob"},
      query : {"", "report"},
      hasAttachments : BOOLEAN, unreadOnly : BOOLEAN,
      before : {None, Some("2024-06-30"), Some("someday")},
      after : {None, Some("2024-01-01"), Some("someday")},
      count : {2, PageCap + MaxOver},
      sortOrder : {"asc", "desc"},
      skip : {0, 5} ]

\* The arguments of list-emails (lines 15-17 of the list handler), in the same shape.
ListArgs ==
    { [ subject |-> "", from |-> "", to |-> "", query |-> "",
        hasAttachments |-> FALSE, unreadOnly |-> FALSE, before |-> None, after |-> None,
        count |-> n, sortOrder |-> "desc", skip |-> 0 ] : n \in Counts }

keepsRaw(dateStr) == dateStr

\* parseDate() lines 267-310 on the date strings of the model: an ISO date
\* parses to its instant, anything else outside the vocabulary is null.
parseDate(dateStr) ==
    IF dateStr = None THEN None
    ELSE IF Val(dateStr) = "2024-01-01" THEN Some("2024-01-01T00:00:00.000Z")
    ELSE IF Val(dateStr) = "2024-06-30" THEN Some("2024-06-30T00:00:00.000Z")
    ELSE None

\* addFilters() lines 317-347: the conditions, in order; $filter is their
\* conjunction and is absent when there is none.
filterConditions(a) ==
    (IF a.hasAttachments = TRUE THEN << <<"hasAttachments", "eq", "true">> >> ELSE <<>>)
    \o (IF a.unreadOnly = TRUE THEN << <<"isRead", "eq", "false">> >> ELSE <<>>)
    \o (IF a.before # None /\ parseDate(a.before) # None
        THEN << <<"receivedDateTime", "lt", Val(parseDate(a.before))>> >> ELSE <<>>)
    \o (IF a.after # None /\ parseDate(a.after) # None
        THEN << <<"receivedDateTime", "ge", Val(parseDate(a.after))>> >> ELSE <<>>)

addFilters(params, a) ==
    IF Len(filterConditions(a)) > 0
    THEN [params EXCEPT !.filter = Some(filterConditions(a))]
    ELSE params

withoutSkip(a) ==
    [ top |-> Min(PageCap, a.count),
      select |-> "EMAIL_SELECT_FIELDS",
      orderby |-> <<"receivedDateTime", a.sortOrder>>,
      skip |-> None,
      search |-> None,
      filter |-> None ]

\* The parameters every strategy starts from (lines 113-122, 158-167, 184-193).
plainParams(a) ==
    [ top |-> Min(PageCap, a.count),
      select |-> "EMAIL_SELECT_FIELDS",
      orderby |-> <<"receivedDateTime", a.sortOrder>>,
      skip |-> IF a.skip > 0 THEN Some(a.skip) ELSE None,
      search |-> None,
      filter |-> None ]

\* A KQL term: the field prefix ('' for the general query), the text, quoted or not.
Kql(field, text, quoted) == <<field, text, quoted>>

\* buildSearchParams() lines 218-259.
kqlTerms(a) ==
    (IF a.query # "" THEN <<Kql("", a.query, FALSE)>> ELSE <<>>)
    \o (IF a.subject # "" THEN <<Kql("subject", a.subject, TRUE)>> ELSE <<>>)
    \o (IF a.from # "" THEN <<Kql("from", a.from, TRUE)>> ELSE <<>>)
    \o (IF a.to # "" THEN <<Kql("to", a.to, TRUE)>> ELSE <<>>)

buildSearchParams(a) ==
    addFilters([plainParams(a) EXCEPT
                   !.search = IF Len(kqlTerms(a)) > 0 THEN Some(kqlTerms(a)) ELSE None],
               a)

\* The priority order of the single-term strategies, line 104, swapped.
searchPrioritySwapped == <<"from", "subject", "to", "query">>

\* Line 104.
searchPriority == <<"subject", "from", "to", "query">>

\* The name pushed for a single-term strategy, line 110.
singleTerm(term) ==
    CASE term = "subject" -> "single-term-subject"
      [] term = "from" -> "single-term-from"
      [] term = "to" -> "single-term-to"
      [] term = "query" -> "single-term-query"

\* The steps of progressiveSearch() in program order.
Steps ==
    <<"combined-search">> \o [i \in 1..Len(searchPriority) |-> singleTerm(searchPriority[i])]
    \o <<"filters-only", "basic-listing">>

termOf(step) == CHOOSE t \in {"subject", "from", "to", "query"} : singleTerm(t) = step

isSingleTerm(step) == \E t \in {"subject", "from", "to", "query"} : singleTerm(t) = step

\* Lines 148-151.
hasFilters(a) ==
    a.hasAttachments = TRUE \/ a.unreadOnly = TRUE \/ a.before # None \/ a.after # None

\* Whether the code enters a step: line 107 for a single term, line 153 for the filters.
entered(step, a) ==
    IF isSingleTerm(step) THEN a[termOf(step)] # ""
    ELSE IF step = "filters-only" THEN hasFilters(a)
    ELSE TRUE

\* The parameters of a step's request (lines 90, 113-134, 158-170, 184-193).
paramsOf(step, a) ==
    IF step = "combined-search" THEN buildSearchParams(a)
    ELSE IF isSingleTerm(step)
    THEN addFilters([plainParams(a) EXCEPT
                        !.search = Some(<<Kql(IF termOf(step) = "query" THEN "" ELSE termOf(step),
                                              a[termOf(step)], TRUE)>>)], a)
    ELSE IF step = "filters-only" THEN addFilters(plainParams(a), a)
    ELSE plainParams(a)

\* The first step after position i that the code enters; basic-listing is always entered.
nextStep(i, a) ==
    Steps[CHOOSE j \in (i + 1)..Len(Steps) :
             /\ entered(Steps[j], a)
             /\ \A k \in (i + 1)..(j - 1) : ~entered(Steps[k], a)]

indexOf(step) == CHOOSE i \in 1..Len(Steps) : Steps[i] = step

\* Lines 95 and 137: a response with at least one item ends the cascade.
moreThanOne(n) == n > 1

hasResults(n) == n > 0

\* The steps whose fetch is outside any try/catch: lines 180-195.
uncaughtWithFilters(step) == step \in {"filters-only", "basic-listing"}

uncaught(step) == step = "basic-listing"

\* The item budget the handlers pass to the paginated fetch: `maxCount`
\* (search.js lines 94, 136, 172, 195) and `requestedCount` (list handler line 34).
pageCapAsBudget(a) == PageCap

fetchBudget(a) == a.count

\* Lines 198-204.
searchInfo(attempts, a) ==
    [attemptsCount |-> Len(attempts), strategies |-> attempts]

\* formatSearchResults() lines 386-390: the strategy the reply names, if any.
strategyUsed(r) ==
    IF r._searchInfo = None THEN None
    ELSE Some(Last(Val(r._searchInfo).strategies))

\* ------------------------------------------------- utils/graph-api (paginated fetch)
\* The size of the next page: min(page cap, remaining budget).
pageSize(budget, got) == Min(PageCap, budget - got)

\* What the remote may answer to a page request of the given size.
PageReturns(size) == {0, size} \cup (IF size > 1 THEN {1} ELSE {})

\* The fetch stops when the budget is used up, on a short page, or when the
\* remote has no more data.
fetchEnds(budget, got, n, size, more) == got >= budget \/ n < size \/ ~more

\* How a failing page request surfaces: as a throw, or as the pages gathered
\* before it when there are any.
fetchFailure(got) == IF got > 0 THEN {"throws", "partial"} ELSE {"throws"}

PageRequest(step, budget, got) ==
    [strategy |-> step, top |-> pageSize(budget, got), offset |-> got]

InitSearch ==
    /\ \/ tool = "search-emails" /\ args \in SearchArgs
       \/ tool = "list-emails" /\ args \in ListArgs
    /\ sPc = "idle"
    /\ searchAttempts = <<>>
    /\ lastOutcome = None
    /\ firstHit = None
    /\ inflight = {}
    /\ acc = 0
    /\ baseParams = None
    /\ response = None
    /\ cachedTokens = None
    /\ tokenFile = None
    /\ Loaded
    /\ NoEdit
    /\ NoStore

\* Push the step's name, build its parameters and call the paginated fetch,
\* which issues its first page request; req is the request that just ended.
attempt(step, req) ==
    /\ searchAttempts' = Append(searchAttempts, step)
    /\ baseParams' = Some(paramsOf(step, args))
    /\ inflight' = (inflight \ {req}) \cup {PageRequest(step, fetchBudget(args), 0)}
    /\ acc' = 0
    /\ sPc' = "calling"
    /\ UNCHANGED response

\* The handler returns r.
return(r, req) ==
    /\ response' = Some(r)
    /\ sPc' = "done"
    /\ inflight' = inflight \ {req}
    /\ acc' = 0
    /\ UNCHANGED <<searchAttempts, baseParams>>

\* handleSearchEmails() lines 14-48 and progressiveSearch() lines 83-94.
handleSearchEmails ==
    /\ tool = "search-emails"
    /\ sPc = "idle"
    /\ searchAttempts' = <<"combined-search">>
    /\ baseParams' = Some(paramsOf("combined-search", args))
    /\ inflight' = {PageRequest("combined-search", fetchBudget(args), 0)}
    /\ acc' = 0
    /\ sPc' = "calling"
    /\ UNCHANGED <<tool, args, lastOutcome, firstHit, response>>
    /\ UNCHANGED notSearch

\* handleListEmails() lines 14-34.
handleListEmails ==
    /\ tool = "list-emails"
    /\ sPc = "idle"
    /\ searchAttempts' = <<"list">>
    /\ baseParams' = Some([plainParams(args) EXCEPT !.orderby = <<"receivedDateTime", "desc">>,
                                                    !.skip = None])
    /\ inflight' = {PageRequest("list", fetchBudget(args), 0)}
    /\ acc' = 0
    /\ sPc' = "calling"
    /\ UNCHANGED <<tool, args, lastOutcome, firstHit, response>>
    /\ UNCHANGED notSearch

\* What the handler does with the n items of the finished fetch:
\* search.js lines 95-98, 137-140, 173-174, 196-206; list handler lines 36-64.
fetched(req, n) ==
    LET step == req.strategy IN
    /\ lastOutcome' = Some([strategy |-> step, kind |-> IF n > 0 THEN "items" ELSE "empty"])
    /\ firstHit' = IF firstHit = None /\ n > 0
                   THEN Some([strategy |-> step, value |-> n]) ELSE firstHit
    /\ IF step = "list"
       THEN return([value |-> n, src |-> step, _searchInfo |-> None], req)
       ELSE IF step = "basic-listing"
       THEN return([value |-> n, src |-> step,
                    _searchInfo |-> Some(searchInfo(searchAttempts, args))], req)
       ELSE IF step = "filters-only"
       THEN return([value |-> n, src |-> step, _searchInfo |-> None], req)
       ELSE IF hasResults(n)
       THEN return([value |-> n, src |-> step, _searchInfo |-> None], req)
       ELSE attempt(nextStep(indexOf(step), args), req)

\* A page arrives: the fetch goes on to the next page or ends, and when it
\* ends the handler continues.
pageOk ==
    /\ sPc = "calling"
    /\ \E req \in inflight :
       \E n \in PageReturns(req.top), more \in BOOLEAN :
         LET got == acc + n
             budget == fetchBudget(args)
         IN
         IF ~fetchEnds(budget, got, n, req.top, more)
         THEN /\ inflight' = (inflight \ {req}) \cup {PageRequest(req.strategy, budget, got)}
              /\ acc' = got
              /\ UNCHANGED <<sPc, searchAttempts, lastOutcome, firstHit, baseParams, response>>
         ELSE fetched(req, got)
    /\ UNCHANGED <<tool, args>>
    /\ UNCHANGED notSearch

\* A page request fails (RemoteError or TransportError). The fetch either
\* throws or, with pages already accumulated, hands those back. A throw is
\* caught at search.js lines 99-101, 141-143, 175-177; after line 180 nothing
\* catches it; the list handler's catch (lines 65-80) turns it into a message.
pageError ==
    /\ sPc = "calling"
    /\ \E req \in inflight :
       \E surfaced \in fetchFailure(acc) :
         IF surfaced = "partial"
         THEN fetched(req, acc)
         ELSE /\ lastOutcome' = Some([strategy |-> req.strategy, kind |-> "error"])
              /\ UNCHANGED firstHit
              /\ IF req.strategy = "list" \/ uncaught(req.strategy)
                 THEN /\ sPc' = "threw"
                      /\ inflight' = inflight \ {req}
                      /\ acc' = 0
                      /\ UNCHANGED <<searchAttempts, baseParams, response>>
                 ELSE attempt(nextStep(indexOf(req.strategy), args), req)
    /\ UNCHANGED <<tool, args>>
    /\ UNCHANGED notSearch

NextSearch ==
    \/ handleSearchEmails
    \/ handleListEmails
    \/ pageOk
    \/ pageError

\* ------------------------------------- categories/remove.js, email/delete.js
\* The category names in use, and the arguments of the tools after the
\* handlers' defaults (`args.id || ''`, `args.category || ''`); the mailbox
\* argument is left out: the primary mailbox, base path 'me'.
CategoryNames == {"Red", "Blue", "Green"}

EditArgs == [id : {"", "m1"}, category : {""} \cup CategoryNames]

DeleteArgs == [id : {"", "m1"}, category : {""}]

\* Category lists without repetition, as the remote keeps them.
CategoryLists ==
    { q \in UNION { [1..n -> CategoryNames] : n \in 0..Cardinality(CategoryNames) } :
        \A i, j \in 1..Len(q) : i # j => q[i] # q[j] }

\* Array.prototype.includes and the filter of remove.js:64.
includes(list, c) == \E i \in 1..Len(list) : list[i] = c

KeepOthers(x, c) == x # c

without(list, c) == SelectSeq(list, LAMBDA x : KeepOthers(x, c))

\* The errors an awaited call may throw, by message, and String.includes on them.
AuthRequired == "Authentication required"

CallErrors ==
    {"API call failed with status 404", "The specified category does not exist",
     "socket hang up"}

msgIncludes(msg, needle) ==
    <<msg, needle>> \in {<<"API call failed with status 404", "404">>,
                         <<"The specified category does not exist", "does not exist">>}

\* The arguments of one callGraphAPI(accessToken, method, path, <4th>, <5th>)
\* call, by position; None is null or not given.
Call(method, id, fourth, fifth) ==
    [method |-> method, id |-> id, fourth |-> fourth, fifth |-> fifth]

Selecting == [select |-> Some("categories"), categories |-> None]

Payload(list) == [select |-> None, categories |-> Some(list)]

\* The text a handler returns: the sentence, the list it names, the error it quotes.
Reply(text, list, err) == [text |-> text, list |-> list, err |-> err]

\* The catch blocks: remove.js:84-102, remove.js:186-214, delete.js:47-75.
caught(t, msg) ==
    IF msg = AuthRequired
    THEN Reply("Authentication required. Please use the 'authenticate' tool first.", <<>>, None)
    ELSE IF t = "add-category" /\ msgIncludes(msg, "does not exist")
    THEN Reply("Category does not exist. Use 'list-categories' to see available categories.",
               <<>>, None)
    ELSE IF t = "delete-email" /\ (msgIncludes(msg, "404") \/ msgIncludes(msg, "not found"))
    THEN Reply("Email not found.", <<>>, None)
    ELSE IF t = "add-category" THEN Reply("Error adding category:", <<>>, Some(msg))
    ELSE IF t = "remove-category" THEN Reply("Error removing category:", <<>>, Some(msg))
    ELSE Reply("Error deleting email:", <<>>, Some(msg))

\* The checks before the try block: remove.js:18-34, :124-140, delete.js:17-24.
skipsValidation(t, a) == None

validation(t, a) ==
    IF a.id = ""
    THEN Some(Reply(IF t = "delete-email"
                    THEN "Email ID is required. Please provide the ID of the email to delete."
                    ELSE "Email ID is required. Please provide the ID of the email.",
                    <<>>, None))
    ELSE IF t = "add-category" /\ a.category = ""
    THEN Some(Reply("Category name is required. Use 'list-categories' to see available categories.",
                    <<>>, None))
    ELSE IF t = "remove-category" /\ a.category = ""
    THEN Some(Reply("Category name is required.", <<>>, None))
    ELSE None

\* remove.js:54 and :160: the edit would change nothing.
alwaysWrites(t, list, c) == FALSE

noOp(t, list, c) ==
    IF t = "add-category" THEN includes(list, c) ELSE ~includes(list, c)

noOpReply(t, list) ==
    IF t = "add-category" THEN Reply("Email already has the category.", <<>>, None)
    ELSE Reply("Email does not have the category. Current categories:", list, None)

\* remove.js:64 and :170.
removesFirstOnly(t, list, c) ==
    IF t = "add-category" THEN Append(list, c)
    ELSE IF Len(list) > 0 /\ list[1] = c THEN Tail(list) ELSE list

updatedCategories(t, list, c) ==
    IF t = "add-category" THEN Append(list, c) ELSE without(list, c)

\* remove.js:74-83, :180-185, delete.js:41-46.
doneReply(t, updated) ==
    IF t = "add-category" THEN Reply("Category added. Email now has categories:", updated, None)
    ELSE IF t = "remove-category"
    THEN IF Len(updated) > 0
         THEN Reply("Category removed. Remaining categories:", updated, None)
         ELSE Reply("Category removed. Email has no more categories.", <<>>, None)
    ELSE Reply("Email deleted successfully. The email has been moved to Deleted Items.",
               <<>>, None)

\* What the remote may answer to the GET: the list, or no `categories`
\* member at all when there is none.
GetResponses(list) == {Some(list)} \cup (IF list = <<>> THEN {None} ELSE {})

\* The remote after a PATCH that succeeded: call(method, path, body, queryParams)
\* sends the 4th argument as the body, and a body is what the remote stores.
patched(call, list) ==
    IF call.fourth # None /\ Val(call.fourth).categories # None
    THEN Val(Val(call.fourth).categories)
    ELSE list

\* What the remote may hold after a PATCH that succeeded. The primitive is
\* given the payload in the 5th position by the category handlers; the list
\* is stored when the primitive sends that object to the remote as the
\* message's properties, and the message is left as it was otherwise.
remoteAfter(call, list) ==
    {patched(call, list)}
        \cup (IF call.fifth # None /\ Val(call.fifth).categories # None
              THEN {Val(Val(call.fifth).categories)} ELSE {})

InitEdit ==
    /\ mailCategories \in CategoryLists
    /\ eTool = [e \in Editors |-> "none"]
    /\ eArgs = [e \in Editors |-> None]
    /\ ePc = [e \in Editors |-> "idle"]
    /\ authCalls = [e \in Editors |-> 0]
    /\ eCalls = [e \in Editors |-> <<>>]
    /\ currentCategories = [e \in Editors |-> None]
    /\ eReply = [e \in Editors |-> None]
    /\ cachedTokens = None
    /\ tokenFile = None
    /\ Loaded
    /\ NoSearch
    /\ NoStore

\* The handler returns r.
replies(e, r) ==
    /\ eReply' = [eReply EXCEPT ![e] = Some(r)]
    /\ ePc' = [ePc EXCEPT ![e] = "done"]

\* A handler from its entry to `await ensureAuthenticated()`, or to the
\* return of a validation message.
invoke(e, t, a) ==
    /\ eTool' = [eTool EXCEPT ![e] = t]
    /\ eArgs' = [eArgs EXCEPT ![e] = a]
    /\ IF validation(t, a) # None
       THEN /\ replies(e, Val(validation(t, a)))
            /\ UNCHANGED authCalls
       ELSE /\ ePc' = [ePc EXCEPT ![e] = "auth"]
            /\ authCalls' = [authCalls EXCEPT ![e] = @ + 1]
            /\ UNCHANGED eReply
    /\ UNCHANGED <<mailCategories, eCalls, currentCategories>>
    /\ UNCHANGED notEdit

\* delete.js:13-27
handleDeleteEmail(e) ==
    /\ ePc[e] = "idle"
    /\ eTool[e] = "none"
    /\ \E a \in DeleteArgs : invoke(e, "delete-email", a)

\* remove.js:119-143
handleAddCategory(e) ==
    /\ ePc[e] = "idle"
    /\ eTool[e] = "none"
    /\ \E a \in EditArgs : invoke(e, "add-category", a)

\* remove.js:13-37
handleRemoveCategory(e) ==
    /\ ePc[e] = "idle"
    /\ eTool[e] = "none"
    /\ \E a \in EditArgs : invoke(e, "remove-category", a)

\* ensureAuthenticated() settles: the handler issues its first call
\* (remove.js:44-49, :150-155, delete.js:34-39) or lands in its catch block.
afterEnsureAuthenticated(e) ==
    /\ ePc[e] = "auth"
    /\ \E outcome \in {"token", AuthRequired} :
         IF outcome = "token"
         THEN /\ eCalls' = [eCalls EXCEPT ![e] =
                    Append(@, IF eTool[e] = "delete-email"
                              THEN Call("DELETE", eArgs[e].id, None, None)
                              ELSE Call("GET", eArgs[e].id, Some(Selecting), None))]
              /\ ePc' = [ePc EXCEPT ![e] =
                    IF eTool[e] = "delete-email" THEN "writing" ELSE "reading"]
              /\ UNCHANGED eReply
         ELSE /\ replies(e, caught(eTool[e], outcome))
              /\ UNCHANGED eCalls
    /\ UNCHANGED <<mailCategories, eTool, eArgs, authCalls, currentCategories>>
    /\ UNCHANGED notEdit

\* The GET settles: remove.js:51-72 and :157-178.
afterGet(e) ==
    /\ ePc[e] = "reading"
    /\ \E outcome \in {"ok"} \cup CallErrors, got \in GetResponses(mailCategories) :
         LET current == IF got = None THEN <<>> ELSE Val(got)
             t == eTool[e]
             c == eArgs[e].category
         IN
         IF outcome # "ok"
         THEN /\ replies(e, caught(t, outcome))
              /\ UNCHANGED <<eCalls, currentCategories>>
         ELSE /\ currentCategories' = [currentCategories EXCEPT ![e] = Some(current)]
              /\ IF noOp(t, current, c)
                 THEN /\ replies(e, noOpReply(t, current))
                      /\ UNCHANGED eCalls
                 ELSE /\ eCalls' = [eCalls EXCEPT ![e] =
                            Append(@, Call("PATCH", eArgs[e].id, None,
                                           Some(Payload(updatedCategories(t, current, c)))))]
                      /\ ePc' = [ePc EXCEPT ![e] = "writing"]
                      /\ UNCHANGED eReply
    /\ UNCHANGED <<mailCategories, eTool, eArgs, authCalls>>
    /\ UNCHANGED notEdit

\* The PATCH or DELETE settles: remove.js:74-83, :180-185, delete.js:41-46.
afterWrite(e) ==
    /\ ePc[e] = "writing"
    /\ \E outcome \in {"ok"} \cup CallErrors,
          held \in remoteAfter(eCalls[e][Len(eCalls[e])], mailCategories) :
         LET t == eTool[e]
         IN
         IF outcome # "ok"
         THEN /\ replies(e, caught(t, outcome))
              /\ UNCHANGED mailCategories
         ELSE /\ mailCategories' = IF t = "delete-email" THEN mailCategories
                                   ELSE held
              /\ replies(e, doneReply(t,
                    IF t = "delete-email" THEN <<>>
                    ELSE updatedCategories(t, Val(currentCategories[e]), eArgs[e].category)))
    /\ UNCHANGED <<eTool, eArgs, authCalls, eCalls, currentCategories>>
    /\ UNCHANGED notEdit

NextEdit ==
    \/ \E e \in Editors : handleDeleteEmail(e)
    \/ \E e \in Editors : handleAddCategory(e)
    \/ \E e \in Editors : handleRemoveCategory(e)
    \/ \E e \in Editors : afterEnsureAuthenticated(e)
    \/ \E e \in Editors : afterGet(e)
    \/ \E e \in Editors : afterWrite(e)

\* ------------------------------------------- the store's functions, directly
\* Records handed to saveTokenCache(): with and without each optional field.
StoreRecords ==
    { Record(at, rt, ein, eat, sc) :
        at \in {None, Some(AccessTok(0)), Some(AccessTok(1))},
        rt \in {None, Some(RefreshTok(0))},
        ein \in {None, Some(3600)},
        eat \in {None, Some(0), Some(TickMs)},
        sc \in {None, Some(StoredScope)} }

InitStore ==
    /\ cachedTokens = None
    /\ tokenFile \in InitialFiles
    /\ Loaded
    /\ NoSearch
    /\ NoEdit
    /\ NoStore

\* saveTokenCache(tokens), lines 77-92: writeFileSync throws, or the file
\* holds the JSON text and the cache the record.
saveTokenCache ==
    /\ NoMicrotasks
    /\ \E tokens \in StoreRecords, writeOk \in BOOLEAN :
         /\ tokenFile' = IF writeOk THEN Some(toJson(tokens)) ELSE tokenFile
         /\ cachedTokens' = IF writeOk THEN Some(tokens) ELSE cachedTokens
         /\ lastSaved' = Some([tokens |-> tokens, ok |-> writeOk])
    /\ lastLoaded' = None
    /\ UNCHANGED <<refreshPromise, netRequests, now, requests, pc, att, result,
                   lastResponse, needsOut>>
    /\ UNCHANGED notStore

\* loadTokenCache(), lines 21-70.
loadTokenCacheCall ==
    /\ NoMicrotasks
    /\ lastLoaded' = Some([value |-> loadTokenCache(tokenFile)])
    /\ cachedTokens' = cacheAfterLoad(cachedTokens, tokenFile)
    /\ UNCHANGED <<refreshPromise, tokenFile, netRequests, now, requests, pc, att, result,
                   lastResponse, needsOut, lastSaved>>
    /\ UNCHANGED notStore

NextStore ==
    \/ saveTokenCache
    \/ loadTokenCacheCall

Init == InitToken

Next == NextToken

\* The token manager under concurrent tool invocations.
Spec == Init /\ [][Next]_vars

\* The token manager with `authenticate` in test mode among the invocations.
SpecAuth == InitToken /\ [][NextAuth]_vars

\* The same where every renewal request completes and every queued
\* continuation runs.
Fairness ==
    /\ WF_vars(responseOk \/ responseFailed)
    /\ \A c \in Callers : WF_vars(resume(c))

\* Calls, responses and continuations alone, at one instant.
NextLive ==
    \/ \E c \in Callers : getAccessToken(c)
    \/ responseOk
    \/ responseFailed
    \/ \E c \in Callers : resume(c)
    \/ \E c \in Callers : collect(c)

SpecLive == InitToken /\ [][NextLive]_vars /\ Fairness

\* needsRefresh() over a range of records and instants.
SpecClassify == InitClassify /\ [][NextClassify]_vars

\* One search-emails or list-emails invocation against a remote that answers
\* each page request with some items, or fails.
SpecSearch == InitSearch /\ [][NextSearch]_vars

\* delete-email, add-category and remove-category invocations on one email
\* against a remote that answers each call, or fails.
SpecEdit == InitEdit /\ [][NextEdit]_vars

\* saveTokenCache() and loadTokenCache() called in any order.
SpecStore == InitStore /\ [][NextStore]_vars

\* ------------------------------------------------------------------ claims

\* C1: callers of getAccessToken() outstanding at the same time while the
\* credential needs refresh and has a refresh token share one renewal request:
\* at most one request is on the wire, every caller that waits is attached to
\* the attempt in the slot, and the callers of one attempt all return the same
\* thing: the access token that attempt's response carried, or null.
C1_SingleFlight ==
    /\ Cardinality(netRequests) <= 1
    /\ \A c \in Callers :
         pc[c] = "awaiting" =>
            /\ refreshPromise = Some(att[c])
            /\ \E r \in netRequests : r.id = att[c]
    /\ \A c1, c2 \in Callers :
         (pc[c1] = "done" /\ pc[c2] = "done" /\ att[c1] > 0 /\ att[c1] = att[c2]) =>
            /\ result[c1] = result[c2]
            /\ result[c1] \in {RetNull, RetToken(Some(AccessTok(att[c1])))}

C1_Witness ==
    \E c1, c2 \in Callers :
        /\ c1 # c2
        /\ pc[c1] = "done" /\ pc[c2] = "done"
        /\ att[c1] > 0 /\ att[c1] = att[c2]
        /\ result[c1].kind = "value"
        /\ requests = 1

\* C2: getAccessToken() never throws, and the callers of an attempt that ended
\* in a transport error, a non-2xx response or an unparseable body return null.
C2_FailureIsNull ==
    /\ \A c \in Callers : result[c].kind # "throw"
    /\ \A c \in Callers :
         (/\ pc[c] = "done" /\ att[c] > 0
          /\ lastResponse # None
          /\ Val(lastResponse).id = att[c]
          /\ Val(lastResponse).kind \in FailureKinds) => result[c] = RetNull

C2_Witness ==
    \E c1, c2 \in Callers :
        /\ c1 # c2
        /\ pc[c1] = "done" /\ pc[c2] = "done"
        /\ att[c1] > 0 /\ att[c1] = att[c2]
        /\ lastResponse # None
        /\ Val(lastResponse).id = att[c1]
        /\ Val(lastResponse).kind = "unparseable"
        /\ result[c1] = RetNull /\ result[c2] = RetNull

\* C3: a 2xx renewal response is merged into the record field by field (the
\* response's access token; its refresh token if it carries one, else the one
\* the record had; expiry = now + lifetime * 1000; its scope if supplied, else
\* the record's), the merged record is handed to saveTokenCache() (the file
\* holds it when the write succeeds), and every waiter of the attempt resumes
\* and returns the response's access token.
C3_ResponseStep ==
    ( /\ \E r \in netRequests : r \notin netRequests'
      /\ Val(lastResponse').kind = "2xx" ) =>
        LET b == Val(Val(lastResponse').body)
            old == Val(cachedTokens)
            new == Val(cachedTokens')
        IN  /\ new.access_token = b.access_token
            /\ new.refresh_token = (IF b.refresh_token # None
                                    THEN b.refresh_token ELSE old.refresh_token)
            /\ new.expires_at = Some(now + Val(b.expires_in) * 1000)
            /\ new.scope = (IF b.scope # None THEN b.scope ELSE old.scope)
            /\ (Val(lastResponse').saved => loadTokenCache(tokenFile') = cachedTokens')
            /\ \A c \in Callers :
                 (pc[c] = "awaiting" /\ att[c] = Val(lastResponse').id)
                     => pc'[c] = "resumeOk"

C3_ResumeStep ==
    \A c \in Callers :
        (pc[c] = "resumeOk" /\ pc'[c] = "done") =>
            result'[c] = RetToken(Val(Val(lastResponse).body).access_token)

C3_Merge == [][C3_ResponseStep /\ C3_ResumeStep]_vars

C3_Witness ==
    \E c \in Callers :
        /\ pc[c] = "done" /\ att[c] > 0
        /\ lastResponse # None
        /\ Val(lastResponse).id = att[c]
        /\ Val(lastResponse).kind = "2xx"
        /\ Val(Val(lastResponse).body).refresh_token = None
        /\ Val(Val(lastResponse).body).scope = None
        /\ Val(lastResponse).saved
        /\ result[c] = RetToken(Some(AccessTok(att[c])))
        /\ Val(cachedTokens).refresh_token = Some(RefreshTok(0))
        /\ Val(cachedTokens).scope = Some(StoredScope)
        /\ tokenFile = Some(toJson(Val(cachedTokens)))

\* C4: needsRefresh() is true exactly when there is no cached record, the
\* record has no expiry, or now >= expiry - 300 s; so 4 minutes left and
\* exactly 300 s left are Expiring, and 10 minutes left is Valid.
C4_Classification ==
    needsOut # None =>
        LET r == Val(needsOut) IN
        IF cachedTokens = None \/ (cachedTokens # None /\ Falsy(Val(cachedTokens).expires_at))
        THEN r.value = TRUE
        ELSE LET left == Val(Val(cachedTokens).expires_at) - r.at IN
             /\ r.value = (left <= 300 * 1000)
             /\ left = 4 * 60 * 1000 => r.value = TRUE
             /\ left = 10 * 60 * 1000 => r.value = FALSE
             /\ left = 300 * 1000 => r.value = TRUE

C4_Witness ==
    /\ needsOut # None
    /\ cachedTokens # None
    /\ Val(cachedTokens).expires_at = Some(10 * 60 * 1000)
    /\ Val(needsOut).at = 5 * 60 * 1000
    /\ Val(needsOut).value = TRUE

\* The claim's "needs refresh", for a record and an instant.
Expiring(rec, t) ==
    rec.expires_at = None \/ t >= Val(rec.expires_at) - 300 * 1000

\* C5: a getAccessToken() call that finds a record with an access token,
\* needing refresh and without refresh token, returns null at once and sends
\* no renewal request; this is so at every such call.
C5_NoRefreshToken ==
    [][ \A c \in Callers :
          ( /\ pc[c] = "idle" /\ pc'[c] # "idle"
            /\ cachedTokens' # None
            /\ Val(cachedTokens').access_token # None
            /\ Val(cachedTokens').refresh_token = None
            /\ Expiring(Val(cachedTokens'), now) ) =>
              /\ pc'[c] = "done"
              /\ result'[c] = RetNull
              /\ requests' = requests
              /\ netRequests' = netRequests
      ]_vars

C5_Witness ==
    \E c1, c2 \in Callers :
        /\ c1 # c2
        /\ pc[c1] = "done" /\ result[c1] = RetNull
        /\ pc[c2] = "done" /\ result[c2] = RetNull
        /\ cachedTokens # None
        /\ Val(cachedTokens).access_token # None
        /\ Val(cachedTokens).refresh_token = None
        /\ Val(cachedTokens).expires_at = Some(TickMs)
        /\ requests = 0

\* The fixed order of the strategies, by the names the code pushes.
FixedOrder ==
    <<"combined-search", "single-term-subject", "single-term-from", "single-term-to",
      "single-term-query", "filters-only", "basic-listing">>

Rank(step) == CHOOSE i \in 1..Len(FixedOrder) : FixedOrder[i] = step

\* C6: the first strategy whose fetch returns at least one item ends the
\* search: the handler has returned exactly those items, that strategy is the
\* last one attempted, and no request is on the wire.
C6_FirstSuccessWins ==
    (tool = "search-emails" /\ firstHit # None) =>
        /\ sPc = "done"
        /\ response # None
        /\ Val(response).value = Val(firstHit).value
        /\ Val(response).src = Val(firstHit).strategy
        /\ Last(searchAttempts) = Val(firstHit).strategy
        /\ inflight = {}

C6_Witness ==
    /\ tool = "search-emails"
    /\ firstHit # None
    /\ Val(firstHit).strategy = "single-term-from"
    /\ searchAttempts = <<"combined-search", "single-term-subject", "single-term-from">>
    /\ args.query # "" /\ hasFilters(args)
    /\ sPc = "done"

\* C7: when strategy S is the first to return at least one item, the reply
\* reports S as the strategy used.
C7_StrategyReported ==
    (tool = "search-emails" /\ sPc = "done" /\ firstHit # None) =>
        strategyUsed(Val(response)) = Some(Val(firstHit).strategy)

\* C8: an error of a strategy other than basic-listing is caught and the
\* cascade goes on with the next strategy the code enters; the search throws
\* only when basic-listing fails.
C8_ErrorsAbsorbed ==
    (tool = "search-emails" /\ lastOutcome # None) =>
        /\ sPc = "threw" =>
              Val(lastOutcome) = [strategy |-> "basic-listing", kind |-> "error"]
        /\ (Val(lastOutcome).kind = "error" /\ Val(lastOutcome).strategy = "basic-listing")
              => sPc = "threw"
        /\ (Val(lastOutcome).kind = "error" /\ Val(lastOutcome).strategy # "basic-listing")
              => /\ sPc = "calling"
                 /\ response = None
                 /\ Rank(Last(searchAttempts)) > Rank(Val(lastOutcome).strategy)
                 /\ Last(searchAttempts) = nextStep(indexOf(Val(lastOutcome).strategy), args)
                 /\ \E req \in inflight : req.strategy = Last(searchAttempts)

C8_Witness ==
    /\ tool = "search-emails"
    /\ lastOutcome = Some([strategy |-> "filters-only", kind |-> "error"])
    /\ sPc = "calling"
    /\ Last(searchAttempts) = "basic-listing"

\* C9: the strategies attempted are a subsequence of the fixed order, and
\* attempts are sequential: at most one request is on the wire, and it belongs
\* to the strategy attempted last.
C9_FixedOrderSequential ==
    tool = "search-emails" =>
        /\ \A i, j \in 1..Len(searchAttempts) :
             i < j => Rank(searchAttempts[i]) < Rank(searchAttempts[j])
        /\ \A i \in 1..Len(searchAttempts) : searchAttempts[i] \in
             {FixedOrder[k] : k \in 1..Len(FixedOrder)}
        /\ Cardinality(inflight) <= 1
        /\ \A req \in inflight : req.strategy = Last(searchAttempts)

C9_Witness ==
    /\ tool = "search-emails"
    /\ searchAttempts = FixedOrder
    /\ sPc = "calling"
    /\ inflight # {}

Handed(call) ==
    IF call.fourth # None /\ Val(call.fourth).categories # None
    THEN Val(call.fourth).categories
    ELSE IF call.fifth # None THEN Val(call.fifth).categories
    ELSE None

Patches(e) == {i \in 1..Len(eCalls[e]) : eCalls[e][i].method = "PATCH"}

\* C11: a category edit that would change nothing is rejected after the one
\* read: remove-category of a category the read list lacks, and add-category
\* of one it has, end with the GET as the only call and the rejection as the
\* reply; and no PATCH ever hands over the list that was read.
C11_NoNoOpWrite ==
    \A e \in Editors :
        /\ ( /\ eTool[e] \in {"add-category", "remove-category"}
             /\ currentCategories[e] # None
             /\ (eTool[e] = "add-category") =
                    includes(Val(currentCategories[e]), eArgs[e].category) )
           => /\ ePc[e] = "done"
              /\ Len(eCalls[e]) = 1
              /\ eCalls[e][1].method = "GET"
              /\ eReply[e] # None
              /\ Val(eReply[e]).text =
                    IF eTool[e] = "add-category" THEN "Email already has the category."
                    ELSE "Email does not have the category. Current categories:"
        /\ \A i \in Patches(e) : Handed(eCalls[e][i]) # currentCategories[e]

C11_Witness ==
    /\ mailCategories = <<"Red">>
    /\ eTool["e1"] = "remove-category" /\ eArgs["e1"].category = "Blue"
    /\ eTool["e2"] = "add-category" /\ eArgs["e2"].category = "Red"
    /\ \A e \in Editors : ePc[e] = "done" /\ currentCategories[e] = Some(<<"Red">>)
    /\ \A e \in Editors : Len(eCalls[e]) = 1

\* Position of a category in a list without repetition.
At(list, c) == CHOOSE i \in 1..Len(list) : list[i] = c

\* C12: when remove-category finds the category in the list it read, the list
\* it hands to the PATCH holds exactly the other categories, in the order
\* read; after the PATCH the reply is the "no more categories" sentence exactly
\* when that list is empty, and otherwise names that list.
C12_RemoveWrites ==
    \A e \in Editors :
        (eTool[e] = "remove-category" /\ currentCategories[e] # None
            /\ includes(Val(currentCategories[e]), eArgs[e].category)) =>
        LET cur == Val(currentCategories[e])
            c == eArgs[e].category
        IN
        /\ Patches(e) = {2} /\ Len(eCalls[e]) = 2
        /\ Handed(eCalls[e][2]) # None
        /\ LET written == Val(Handed(eCalls[e][2])) IN
           /\ ~includes(written, c)
           /\ \A x \in CategoryNames : (x # c /\ includes(cur, x)) => includes(written, x)
           /\ \A i, j \in 1..Len(written) :
                i < j => /\ written[i] # written[j]
                         /\ includes(cur, written[i]) /\ includes(cur, written[j])
                         /\ At(cur, written[i]) < At(cur, written[j])
           /\ (ePc[e] = "done" /\ Val(eReply[e]).err = None) =>
                /\ (Val(eReply[e]).text = "Category removed. Email has no more categories.")
                        = (written = <<>>)
                /\ written # <<>> =>
                     /\ Val(eReply[e]).text = "Category removed. Remaining categories:"
                     /\ Val(eReply[e]).list = written

C12_Witness ==
    /\ eTool["e1"] = "remove-category" /\ eArgs["e1"].category = "Blue"
    /\ currentCategories["e1"] = Some(<<"Red", "Blue", "Green">>)
    /\ ePc["e1"] = "done"
    /\ Handed(eCalls["e1"][2]) = Some(<<"Red", "Green">>)
    /\ Val(eReply["e1"]).text = "Category removed. Remaining categories:"
    /\ Val(eReply["e1"]).list = <<"Red", "Green">>

\* C13: delete-email, add-category and remove-category called without an
\* email id, and the category tools called without a category, return the
\* validation message without a call of ensureAuthenticated() and without a
\* remote call.
C13_ValidationFirst ==
    \A e \in Editors :
        ( /\ eTool[e] # "none"
          /\ \/ eArgs[e].id = ""
             \/ eTool[e] # "delete-email" /\ eArgs[e].category = "" )
        => /\ ePc[e] = "done"
           /\ authCalls[e] = 0
           /\ eCalls[e] = <<>>
           /\ eReply[e] # None
           /\ Val(eReply[e]).text \in
                {"Email ID is required. Please provide the ID of the email to delete.",
                 "Email ID is required. Please provide the ID of the email.",
                 "Category name is required. Use 'list-categories' to see available categories.",
                 "Category name is required."}

C13_Witness ==
    /\ eTool["e1"] = "delete-email" /\ eArgs["e1"].id = ""
    /\ eTool["e2"] = "remove-category" /\ eArgs["e2"] = [id |-> "m1", category |-> ""]
    /\ \A e \in Editors : ePc[e] = "done" /\ authCalls[e] = 0 /\ eCalls[e] = <<>>

Seen == IF cachedTokens = None THEN loadTokenCache(tokenFile) ELSE cachedTokens

\* More than the buffer away from its expiry.
ValidAt(rec, t) ==
    /\ rec.access_token # None
    /\ rec.expires_at # None
    /\ Val(rec.expires_at) # 0
    /\ t < Val(rec.expires_at) - 300000

C15_CallStep(c) ==
    (pc[c] = "idle" /\ pc'[c] # "idle" /\ Seen # None /\ ValidAt(Val(Seen), now)) =>
        /\ pc'[c] = "done"
        /\ result'[c] = RetToken(Val(Seen).access_token)
        /\ netRequests' = netRequests
        /\ requests' = requests
        /\ refreshPromise' = refreshPromise

\* C15: a getAccessToken() call on a credential that is valid returns its
\* access token in the step of the call, sends nothing and leaves the attempt
\* slot alone, whether or not a renewal request is on the wire.
C15_ValidNeverWaits == [][\A c \in Callers : C15_CallStep(c)]_vars

C15_Witness ==
    \E c, w \in Callers :
        /\ pc[c] = "done" /\ att[c] = 0
        /\ result[c].kind = "value"
        /\ Val(result[c].token)[1] = "test_access_token_"
        /\ pc[w] = "awaiting"
        /\ refreshPromise # None
        /\ \E r \in netRequests : r.refresh_token = Some(RefreshTok(0))

C16_Returns == \A c \in Callers : (pc[c] = "awaiting") ~> (pc[c] = "done")

C16_NotBlocked ==
    \A c \in Callers : pc[c] = "awaiting" => \E r \in netRequests : r.id = att[c]

C16_OneRequest ==
    /\ requests' \in {requests, requests + 1}
    /\ requests' # requests =>
         /\ \E c \in Callers : pc[c] = "idle" /\ pc'[c] = "awaiting" /\ att'[c] = requests'
         /\ Cardinality(netRequests') = Cardinality(netRequests) + 1
    /\ \A c \in Callers :
         (pc[c] \in {"awaiting", "resumeOk", "resumeErr"} /\ pc'[c] # pc[c]) =>
            /\ pc'[c] \in {"resumeOk", "resumeErr", "done"}
            /\ requests' = requests
            /\ netRequests' \subseteq netRequests

\* C16: where every renewal request completes, every getAccessToken() call
\* that waits returns; a caller waits only while the request of its attempt
\* is outstanding; and a call sends at most one request: the step that sends
\* is the call's first, and a call that has waited only returns.
C16_Terminates == C16_Returns /\ []C16_NotBlocked /\ [][C16_OneRequest]_vars

C16_Witness ==
    /\ \A c \in Callers : pc[c] = "done" /\ att[c] = 1
    /\ lastResponse # None /\ Val(lastResponse).kind = "non-2xx"
    /\ requests = 1
    /\ \A c \in Callers : result[c] = RetNull

\* C17: when the 2xx response was merged but the write of the file failed,
\* every caller that waited for that attempt gets the access token of the
\* response, and while they are resumed the cached record holds the values
\* of the response.
C17_WriteFailureHarmless ==
    (lastResponse # None /\ Val(lastResponse).kind = "2xx" /\ ~Val(lastResponse).saved) =>
        LET body == Val(Val(lastResponse).body) IN
        \A c \in Callers :
            att[c] = Val(lastResponse).id =>
                /\ pc[c] \in {"resumeOk", "done"}
                /\ pc[c] = "done" => result[c] = RetToken(body.access_token)
                /\ pc[c] = "resumeOk" =>
                     /\ cachedTokens # None
                     /\ Val(cachedTokens).access_token = body.access_token
                     /\ Val(cachedTokens).expires_in = body.expires_in
                     /\ Val(cachedTokens).expires_at =
                            Some(now + Val(body.expires_in) * 1000)
                     /\ body.refresh_token # None =>
                            Val(cachedTokens).refresh_token = body.refresh_token

C17_Witness ==
    /\ lastResponse # None
    /\ Val(lastResponse).kind = "2xx" /\ ~Val(lastResponse).saved
    /\ \A c \in Callers :
         /\ pc[c] = "done" /\ att[c] = Val(lastResponse).id
         /\ result[c] = RetToken(Val(Val(lastResponse).body).access_token)
    /\ tokenFile # Some(toJson(Val(cachedTokens)))

C18_Slot ==
    /\ (refreshPromise # None) = (netRequests # {})
    /\ refreshPromise # None => \E r \in netRequests : r.id = Val(refreshPromise)

C18_NewAttempt ==
    \A c \in Callers :
        (pc[c] = "idle" /\ pc'[c] = "awaiting" /\ netRequests = {}) =>
            /\ requests' = requests + 1
            /\ refreshPromise' = Some(requests')
            /\ att'[c] = requests'
            /\ \E r \in netRequests' : r.id = requests'

\* C18: the attempt slot is occupied exactly while a renewal request is
\* outstanding, and by that request's attempt; so it is empty once the request
\* has ended in whichever way, and a call that has to wait when no request is
\* outstanding sends a new one and waits for that.
C18_SlotInvariant == []C18_Slot /\ [][C18_NewAttempt]_vars

C18_Witness ==
    /\ lastResponse # None
    /\ Val(lastResponse).kind \in FailureKinds
    /\ Val(lastResponse).id = 1
    /\ refreshPromise = Some(2)
    /\ \E c \in Callers : pc[c] = "awaiting" /\ att[c] = 2

C19_Step ==
    /\ ( /\ \E r \in netRequests : r \notin netRequests'
         /\ Val(lastResponse').kind \in FailureKinds )
       => /\ cachedTokens' = cachedTokens
          /\ tokenFile' = tokenFile
    /\ \A c \in Callers :
         (pc[c] = "resumeErr" /\ pc'[c] # pc[c]) =>
            /\ cachedTokens' = cachedTokens
            /\ tokenFile' = tokenFile

\* C19: the step in which a renewal request ends by a transport error, a
\* non-2xx status or a body that does not parse leaves the cached record and
\* the file as they were, field for field, and so does the return of every
\* caller that waited for it.
C19_FailureLeavesRecord == [][C19_Step]_vars

C19_Witness ==
    /\ lastResponse # None
    /\ Val(lastResponse).kind = "unparseable"
    /\ cachedTokens # None
    /\ tokenFile = Some(toJson(Val(cachedTokens)))
    /\ Val(cachedTokens).access_token = Some(AccessTok(0))
    /\ \A c \in Callers : pc[c] = "done" /\ result[c] = RetNull /\ att[c] = 1

\* C20: after a renewal succeeded the credential is valid: while the callers
\* of the attempt are resumed, needsRefresh() is false, whatever lifetime the
\* response reported.
C20_ValidAfterRenewal ==
    (lastResponse # None /\ Val(lastResponse).kind = "2xx"
        /\ \E c \in Callers : pc[c] = "resumeOk" /\ att[c] = Val(lastResponse).id)
    => ~needsRefresh(cachedTokens, now)

\* C21: from a successful renewal until the next response, the cached record
\* is the refreshed one, whether or not its write succeeded: it holds the
\* access token of the response, and a renewal request sent in that time
\* carries the refresh token the record had after the merge, never the one
\* it had before.
C21_RefreshedStaysAuthoritative ==
    (lastResponse # None /\ Val(lastResponse).kind = "2xx") =>
        LET body == Val(Val(lastResponse).body) IN
        /\ cachedTokens # None
        /\ Val(cachedTokens).access_token = body.access_token
        /\ \A r \in netRequests :
             body.refresh_token # None => r.refresh_token = body.refresh_token

\* C22: a search that ends without any strategy having returned an item has
\* attempted basic-listing last and returns basic-listing's result.
C22_EmptyNeverEnds ==
    (tool = "search-emails" /\ sPc = "done" /\ firstHit = None) =>
        /\ Last(searchAttempts) = "basic-listing"
        /\ Val(response).src = "basic-listing"

\* A boolean or date filter was supplied; a criterion of any kind was supplied.
FilterSupplied ==
    args.hasAttachments = TRUE \/ args.unreadOnly = TRUE
        \/ args.before # None \/ args.after # None

CriterionSupplied ==
    FilterSupplied \/ args.subject # "" \/ args.from # "" \/ args.to # "" \/ args.query # ""

\* C23: every strategy attempted has its inputs: single-term-<field> only
\* with that field's term, filters-only only with a filter supplied, combined
\* only with some criterion supplied; with no criterion at all, basic-listing
\* is the only strategy attempted.
C23_InputsPresent ==
    tool = "search-emails" =>
        \A i \in 1..Len(searchAttempts) :
            /\ searchAttempts[i] = "single-term-subject" => args.subject # ""
            /\ searchAttempts[i] = "single-term-from" => args.from # ""
            /\ searchAttempts[i] = "single-term-to" => args.to # ""
            /\ searchAttempts[i] = "single-term-query" => args.query # ""
            /\ searchAttempts[i] = "filters-only" => FilterSupplied
            /\ searchAttempts[i] = "combined-search" => CriterionSupplied
            /\ ~CriterionSupplied => searchAttempts[i] = "basic-listing"

Parses(d) == d \in {Some("2024-01-01"), Some("2024-06-30")}

\* C25: in the request of every strategy that applies the filters, a date
\* bound that does not parse has no condition; the conditions of the other
\* supplied filters are all there, in the order hasAttachments, unreadOnly,
\* before, after; and with no condition left there is no filter expression.
C25_UnparseableDropped ==
    (tool = "search-emails" /\ baseParams # None
        /\ Last(searchAttempts) # "basic-listing") =>
    LET f == Val(baseParams).filter
        conds == IF f = None THEN <<>> ELSE Val(f)
        has(field, op) == \E i \in 1..Len(conds) : conds[i][1] = field /\ conds[i][2] = op
        expected == (IF args.hasAttachments THEN 1 ELSE 0) + (IF args.unreadOnly THEN 1 ELSE 0)
                    + (IF Parses(args.before) THEN 1 ELSE 0)
                    + (IF Parses(args.after) THEN 1 ELSE 0)
    IN
    /\ sPc # "threw"
    /\ has("receivedDateTime", "lt") = Parses(args.before)
    /\ has("receivedDateTime", "ge") = Parses(args.after)
    /\ has("hasAttachments", "eq") = args.hasAttachments
    /\ has("isRead", "eq") = args.unreadOnly
    /\ Len(conds) = expected
    /\ (f = None) = (expected = 0)

C25_Witness ==
    /\ tool = "search-emails"
    /\ args.before = Some("someday") /\ args.after = Some("2024-01-01")
    /\ args.unreadOnly /\ ~args.hasAttachments
    /\ searchAttempts # <<>> /\ Last(searchAttempts) = "filters-only"
    /\ baseParams # None
    /\ Val(baseParams).filter =
          Some(<< <<"isRead", "eq", "false">>,
                  <<"receivedDateTime", "ge", "2024-01-01T00:00:00.000Z">> >>)

\* C29: the request of the filters-only strategy has a filter expression and
\* no search expression, and so differs from the basic-listing request.
C29_FiltersOnlyFilters ==
    (tool = "search-emails" /\ baseParams # None
        /\ Last(searchAttempts) = "filters-only") =>
        /\ Val(baseParams).filter # None
        /\ Val(baseParams).search = None
        /\ Val(baseParams) # plainParams(args)

\* The editor's invocation of tool t on the message ended with the reply of
\* a write that succeeded.
Edited(e, t) ==
    /\ eTool[e] = t /\ ePc[e] = "done" /\ eArgs[e].id = "m1"
    /\ Patches(e) # {}
    /\ Val(eReply[e]).err = None

\* C26: when two category edits of one message with different categories have
\* both reported success, the message's category list reflects both: a
\* category added is in it, a category removed is not.
C26_NoLostUpdate ==
    \A e1, e2 \in Editors :
        ( /\ e1 # e2
          /\ eArgs[e1] # None /\ eArgs[e2] # None
          /\ eArgs[e1].category # eArgs[e2].category
          /\ Edited(e1, "add-category")
          /\ Edited(e2, "add-category") \/ Edited(e2, "remove-category") ) =>
            /\ includes(mailCategories, eArgs[e1].category)
            /\ Edited(e2, "add-category") => includes(mailCategories, eArgs[e2].category)
            /\ Edited(e2, "remove-category") => ~includes(mailCategories, eArgs[e2].category)

\* Both edits have read the list before either has written, and the list the
\* remote holds afterwards is the one the second write handed over.
C26_Interleaved ==
    /\ Edited("e1", "add-category") /\ Edited("e2", "add-category")
    /\ eArgs["e1"].category = "Red" /\ eArgs["e2"].category = "Blue"
    /\ currentCategories["e1"] = Some(<<>>) /\ currentCategories["e2"] = Some(<<>>)
    /\ mailCategories = <<"Blue">>

\* C30: every call handed to callGraphAPI follows call(method, path, body,
\* queryParams): a GET has nothing in the body position and its query
\* parameters in the queryParams position, and a PATCH has its payload in the
\* body position and none in the queryParams position.
C30_OneConvention ==
    \A e \in Editors : \A i \in 1..Len(eCalls[e]) :
        LET call == eCalls[e][i] IN
        /\ call.method = "GET" =>
              /\ call.fourth = None
              /\ call.fifth # None /\ Val(call.fifth).select # None
        /\ call.method = "PATCH" =>
              /\ call.fourth # None /\ Val(call.fourth).categories # None
              /\ call.fifth = None \/ Val(call.fifth).categories = None

\* C27: when a getAccessToken() call has returned null on a record for which
\* no renewal can be asked (it has no refresh token), check-auth-status at that
\* instant does not report "Authenticated and ready".
C27_StatusAgrees ==
    \A c \in Callers :
        ( /\ pc[c] = "done" /\ result[c] = RetNull
          /\ cachedTokens # None /\ Val(cachedTokens).refresh_token = None ) =>
            statusMessage(loadTokenCache(tokenFile), now) # "Authenticated and ready"

\* C28: a 2xx renewal response leaves alone a cached record that is not the
\* one whose refresh token the request carried: its access token, refresh
\* token and expiry are after the response what they were before it.
C28_OnlyItsOwnRecord ==
    [][ \A r \in netRequests :
          ( /\ r \notin netRequests'
            /\ lastResponse' # None /\ Val(lastResponse').kind = "2xx"
            /\ cachedTokens # None
            /\ Val(cachedTokens).refresh_token # r.refresh_token ) =>
              /\ cachedTokens' # None
              /\ Val(cachedTokens').access_token = Val(cachedTokens).access_token
              /\ Val(cachedTokens').refresh_token = Val(cachedTokens).refresh_token
              /\ Val(cachedTokens').expires_at = Val(cachedTokens).expires_at ]_vars

====
